---------------------------- MODULE Spec2Model ----------------------------
(***************************************************************************)
(* A model of notify_release.py: the Markdown -> Slack mrkdwn converters,   *)
(* chunk_text, build_slack_blocks, extract_owner_repo_release and main.     *)
(* Spec is a run of main; SpecMarkdown, SpecChunk, SpecBlocks and SpecUrl   *)
(* call one function each on inputs drawn from bounded sets.                *)
(*                                                                         *)
(* A Python str is a sequence of one-character strings.  The two non-ASCII  *)
(* characters the program writes are the atoms BULLET (U+2022) and EMDASH   *)
(* (U+2014), and the grave accent of a code fence is the atom BACKTICK      *)
(* (U+0060, which a TLA+ string cannot hold); each is one character.        *)
(***************************************************************************)
EXTENDS Integers, Sequences, FiniteSets, TLC

BULLET == "U+2022"
EMDASH == "U+2014"
BACKTICK == "U+0060"

(***************************************************************************)
(* str helpers                                                             *)
(***************************************************************************)

\* The characters str.strip() removes and \s matches (within the model's alphabet).
Whitespace == {" ", "\t", "\n", "\r"}

IsSpace(c) == c \in Whitespace

\* The line boundaries of str.splitlines() (within the model's alphabet);
\* "\r\n" is one boundary.
LineBreaks == {"\n", "\r"}

Min(S) == CHOOSE x \in S : \A y \in S : x <= y

RECURSIVE FirstNonSpace(_, _)
\* The first index >= i of s that holds no whitespace, or Len(s) + 1.
FirstNonSpace(s, i) ==
    IF i > Len(s) \/ ~IsSpace(s[i]) THEN i ELSE FirstNonSpace(s, i + 1)

RECURSIVE LastNonSpace(_, _)
\* The last index <= i of s that holds no whitespace, or 0.
LastNonSpace(s, i) ==
    IF i < 1 \/ ~IsSpace(s[i]) THEN i ELSE LastNonSpace(s, i - 1)

\* str.strip()
Strip(s) == SubSeq(s, FirstNonSpace(s, 1), LastNonSpace(s, Len(s)))

RECURSIVE FirstNot(_, _, _)
FirstNot(s, c, i) == IF i > Len(s) \/ s[i] # c THEN i ELSE FirstNot(s, c, i + 1)

RECURSIVE LastNot(_, _, _)
LastNot(s, c, i) == IF i < 1 \/ s[i] # c THEN i ELSE LastNot(s, c, i - 1)

\* str.strip(c) for a one-character c
StripChar(s, c) == SubSeq(s, FirstNot(s, c, 1), LastNot(s, c, Len(s)))

\* s[i:].startswith(p), i 1-based
StartsWithAt(s, p, i) ==
    /\ i + Len(p) - 1 <= Len(s)
    /\ \A k \in 1..Len(p) : s[i + k - 1] = p[k]

\* p in s
Contains(s, p) == \E i \in 1..(Len(s) + 1) : StartsWithAt(s, p, i)

\* The first index >= i of s that holds c, or Len(s) + 1.
IndexOf(s, c, i) ==
    LET hits == {k \in i..Len(s) : s[k] = c}
    IN  IF hits = {} THEN Len(s) + 1 ELSE Min(hits)

RECURSIVE SplitOn(_, _)
\* str.split(c) for a one-character c: always at least one part.
SplitOn(s, c) ==
    LET k == IndexOf(s, c, 1)
    IN  IF k > Len(s) THEN <<s>>
        ELSE <<SubSeq(s, 1, k - 1)>> \o SplitOn(SubSeq(s, k + 1, Len(s)), c)

RECURSIVE Join(_, _)
\* sep.join(parts)
Join(parts, sep) ==
    IF parts = <<>> THEN <<>>
    ELSE IF Len(parts) = 1 THEN parts[1]
    ELSE parts[1] \o sep \o Join(Tail(parts), sep)

RECURSIVE SplitLinesFrom(_, _, _, _)
\* The lines of s from index i on; brk holds the indices of the line-break
\* characters of s.
SplitLinesFrom(s, i, brk, keepends) ==
    IF i > Len(s) THEN <<>>
    ELSE LET later == {k \in brk : k >= i}
             b == IF later = {} THEN Len(s) + 1 ELSE Min(later)
             \* the last character of the boundary: "\r\n" is one boundary
             e == IF b < Len(s) /\ s[b] = "\r" /\ s[b + 1] = "\n" THEN b + 1 ELSE b
             last == IF b > Len(s) THEN Len(s) ELSE IF keepends THEN e ELSE b - 1
         IN  <<SubSeq(s, i, last)>> \o SplitLinesFrom(s, e + 1, brk, keepends)

\* str.splitlines(keepends)
SplitLines(s, keepends) ==
    SplitLinesFrom(s, 1, {k \in 1..Len(s) : s[k] \in LineBreaks}, keepends)

\* Whether the regex anchor ^ (re.MULTILINE) matches before index i of s.
AtLineStart(s, i) == i = 1 \/ s[i - 1] = "\n"

\* The index at which a greedy .* started at i stops: the next "\n" or Len(s) + 1.
DotStarEnd(s, i) == IndexOf(s, "\n", i)

(***************************************************************************)
(* Markdown -> Slack converters                                            *)
(***************************************************************************)

RECURSIVE HashRun(_, _)
\* The number of consecutive "#" of md from index i.
HashRun(md, i) == IF i > Len(md) \/ md[i] # "#" THEN 0 ELSE 1 + HashRun(md, i + 1)

\* Whether ^(#{1,6})\s+(.*)$ matches at index i: 1 to 6 hashes at a line start,
\* then at least one whitespace character.
header_match(md, i) ==
    /\ AtLineStart(md, i)
    /\ LET h == HashRun(md, i)
       IN  h \in 1..6 /\ i + h <= Len(md) /\ IsSpace(md[i + h])

\* Where group 2 of the header match at i starts: \s+ is greedy and \s matches
\* line breaks too.
header_group2(md, i) == FirstNonSpace(md, i + HashRun(md, i))

RECURSIVE headers_from(_, _)
headers_from(md, i) ==
    IF i > Len(md) THEN <<>>
    ELSE IF header_match(md, i)
         THEN LET g == header_group2(md, i)
                  e == DotStarEnd(md, g)
                  header_text == Strip(SubSeq(md, g, e - 1))
              IN  <<"*">> \o header_text \o <<"*">> \o headers_from(md, e)
         ELSE <<md[i]>> \o headers_from(md, i + 1)

convert_headers(md) == headers_from(md, 1)

\* The matches of \[(.*?)\]\((.*?)\) that start at index i, as pairs <<j, k>>:
\* j the index of "]", k the index of ")"; "." matches no "\n".
link_matches(md, i) ==
    IF md[i] # "["
    THEN {}
    ELSE {jk \in ((i + 1)..(DotStarEnd(md, i + 1) - 1)) \X (1..Len(md)) :
            /\ md[jk[1]] = "]"
            /\ jk[1] + 1 <= Len(md)
            /\ md[jk[1] + 1] = "("
            /\ jk[2] \in (jk[1] + 2)..(DotStarEnd(md, jk[1] + 2) - 1)
            /\ md[jk[2]] = ")"}

\* The match the regex engine returns: both groups are non-greedy, the first
\* one is extended before the second.
link_first(md, i) ==
    LET ms == link_matches(md, i)
        j == Min({jk[1] : jk \in ms})
        k == Min({jk[2] : jk \in {m \in ms : m[1] = j}})
    IN  <<j, k>>

RECURSIVE links_from(_, _)
links_from(md, i) ==
    IF i > Len(md) THEN <<>>
    ELSE IF link_matches(md, i) # {}
         THEN LET jk == link_first(md, i)
                  text == SubSeq(md, i + 1, jk[1] - 1)
                  url == SubSeq(md, jk[1] + 2, jk[2] - 1)
              IN  <<"<">> \o url \o <<"|">> \o text \o <<">">>
                      \o links_from(md, jk[2] + 1)
         ELSE <<md[i]>> \o links_from(md, i + 1)

convert_links(md) == links_from(md, 1)

RECURSIVE checkbox_sub(_, _, _)
\* re.sub(box + r"\s+", BULLET + " ", md) from index i on, box a literal.
checkbox_sub(md, box, i) ==
    IF i > Len(md) THEN <<>>
    ELSE IF /\ StartsWithAt(md, box, i)
            /\ i + Len(box) <= Len(md)
            /\ IsSpace(md[i + Len(box)])
         THEN <<BULLET, " ">> \o checkbox_sub(md, box, FirstNonSpace(md, i + Len(box)))
         ELSE <<md[i]>> \o checkbox_sub(md, box, i + 1)

convert_checkboxes(md) ==
    LET md1 == checkbox_sub(md, <<"-", " ", "[", " ", "]">>, 1)
    IN  checkbox_sub(md1, <<"-", " ", "[", "x", "]">>, 1)

\* bullet_repl: line is one match of ^[^\n]+, a whole non-empty line.
bullet_repl(line) ==
    IF StartsWithAt(Strip(line), <<BACKTICK, BACKTICK, BACKTICK>>, 1)
    THEN line
    ELSE LET w == FirstNonSpace(line, 1)
         IN  IF /\ w + 1 <= Len(line)
                /\ line[w] \in {"-", "*"}
                /\ IsSpace(line[w + 1])
             THEN <<BULLET, " ">> \o SubSeq(line, w + 2, Len(line))
             ELSE line

RECURSIVE bullets_from(_, _)
bullets_from(md, i) ==
    IF i > Len(md) THEN <<>>
    ELSE IF AtLineStart(md, i) /\ md[i] # "\n"
         THEN LET e == DotStarEnd(md, i)
              IN  bullet_repl(SubSeq(md, i, e - 1)) \o bullets_from(md, e)
         ELSE <<md[i]>> \o bullets_from(md, i + 1)

convert_bullets(md) == bullets_from(md, 1)

\* One iteration of the loop of convert_tables: the line appended to out.
table_line(line) ==
    IF Contains(line, <<"|">>) /\ ~Contains(line, <<"-", "-", "-">>)
    THEN LET cells == SplitOn(StripChar(line, "|"), "|")
             parts == [n \in 1..Len(cells) |-> Strip(cells[n])]
         IN  IF Len(parts) >= 2
             THEN <<BULLET, " ">> \o Join(parts, <<" ", EMDASH, " ">>)
             ELSE line
    ELSE line

convert_tables(md) ==
    LET lines == SplitLines(md, FALSE)
        out == [n \in 1..Len(lines) |-> table_line(lines[n])]
    IN  Join(out, <<"\n">>)

convert_markdown(md) ==
    LET md1 == convert_headers(md)
        md2 == convert_links(md1)
        md3 == convert_checkboxes(md2)
        md4 == convert_bullets(md3)
        md5 == convert_tables(md4)
    IN  Strip(md5)

(***************************************************************************)
(* Slack Block Kit construction                                            *)
(***************************************************************************)

SLACK_SECTION_LIMIT == 2800

\* A flush that comes one character late.
flush_needed_late(length, line, limit) == length + Len(line) > limit + 1

\* The test of the loop of chunk_text: the line does not fit the buffer any more.
flush_needed(length, line, limit) == length + Len(line) > limit

\* "".join(current).strip()
flush(current) == Strip(Join(current, <<>>))

RECURSIVE chunk_loop(_, _, _, _, _, _)
\* The loop of chunk_text from line n on; current is the list of buffered
\* lines, length their summed length.
chunk_loop(lines, n, limit, chunks, current, length) ==
    IF n > Len(lines)
    THEN [chunks |-> chunks, current |-> current]
    ELSE LET line == lines[n]
             full == flush_needed(length, line, limit)
             chunks1 == IF full THEN Append(chunks, flush(current)) ELSE chunks
             current1 == IF full THEN <<>> ELSE current
             length1 == IF full THEN 0 ELSE length
         IN  chunk_loop(lines, n + 1, limit, chunks1,
                        Append(current1, line), length1 + Len(line))

\* The buffer left after the loop is forgotten.
final_flush_missing(chunks, current) == chunks

\* The statement after the loop of chunk_text.
final_flush(chunks, current) ==
    IF current # <<>> THEN Append(chunks, flush(current)) ELSE chunks

chunk_text(text, limit) ==
    LET r == chunk_loop(SplitLines(text, TRUE), 1, limit, <<>>, <<>>, 0)
    IN  final_flush(r.chunks, r.current)

Details == <<"D", "e", "t", "a", "i", "l", "s">>

Attribution ==
    <<"P", "o", "s", "t", "e", "d", " ", "a", "u", "t", "o", "m", "a",
    "t", "i", "c", "a", "l", "l", "y", " ", "v", "i", "a", " ", "G", "i",
    "t", "H", "u", "b", " ", "A", "c", "t", "i", "o", "n">>

title_block(release_url, title) ==
    [type |-> "section",
     text |-> [type |-> "mrkdwn",
               text |-> <<"*", "<">> \o release_url \o <<"|">> \o title \o <<">", "*">>]]

divider_block == [type |-> "divider"]

header_block ==
    [type |-> "header",
     text |-> [type |-> "plain_text", text |-> Details, emoji |-> TRUE]]

section_block(chunk) ==
    [type |-> "section", text |-> [type |-> "mrkdwn", text |-> chunk]]

context_block ==
    [type |-> "context",
     elements |-> <<[type |-> "mrkdwn", text |-> Attribution]>>]

\* The context block is appended before the body sections.
build_slack_blocks_context_first(release_url, title, markdown_text) ==
    LET chunks == chunk_text(markdown_text, SLACK_SECTION_LIMIT)
    IN  <<title_block(release_url, title), divider_block, header_block,
          context_block>>
            \o [n \in 1..Len(chunks) |-> section_block(chunks[n])]

build_slack_blocks(release_url, title, markdown_text) ==
    LET chunks == chunk_text(markdown_text, SLACK_SECTION_LIMIT)
    IN  <<title_block(release_url, title), divider_block, header_block>>
            \o [n \in 1..Len(chunks) |-> section_block(chunks[n])]
            \o <<context_block>>

(***************************************************************************)
(* Release fetching                                                        *)
(***************************************************************************)

Letters ==
    {"a", "b", "c", "d", "e", "f", "g", "h", "i", "j", "k", "l", "m",
     "n", "o", "p", "q", "r", "s", "t", "u", "v", "w", "x", "y", "z"}

\* urllib.parse.scheme_chars, lower case
SchemeChars ==
    Letters \cup {"0", "1", "2", "3", "4", "5", "6", "7", "8", "9", "+", "-", "."}

\* urlparse(url).path, for a url of scheme http or https or of no scheme:
\* the scheme up to the first ":", the netloc after "//" up to the first of
\* "/", "?" and "#", then the fragment from the first "#", the query from the
\* first "?", and the params from the first ";" of the last path segment.
UrlPath(url) ==
    LET colon == IndexOf(url, ":", 1)
        has_scheme == /\ colon \in 2..Len(url)
                      /\ url[1] \in Letters
                      /\ \A k \in 1..(colon - 1) : url[k] \in SchemeChars
        u1 == IF has_scheme THEN SubSeq(url, colon + 1, Len(url)) ELSE url
        has_netloc == StartsWithAt(u1, <<"/", "/">>, 1)
        delim == Min({IndexOf(u1, "/", 3), IndexOf(u1, "?", 3), IndexOf(u1, "#", 3)})
        u2 == IF has_netloc THEN SubSeq(u1, delim, Len(u1)) ELSE u1
        u3 == SubSeq(u2, 1, IndexOf(u2, "#", 1) - 1)
        u4 == SubSeq(u3, 1, IndexOf(u3, "?", 1) - 1)
        slashes == {k \in 1..Len(u4) : u4[k] = "/"}
        last_slash == IF slashes = {} THEN 1
                      ELSE CHOOSE k \in slashes : \A m \in slashes : m <= k
    IN  SubSeq(u4, 1, IndexOf(u4, ";", last_slash) - 1)

ReleasesName == <<"r", "e", "l", "e", "a", "s", "e", "s">>

TagName == <<"t", "a", "g">>

\* The test of extract_owner_repo_release that calls fail.
url_rejected(parts) ==
    Len(parts) < 5 \/ parts[3] # ReleasesName \/ parts[4] # TagName

\* ok = FALSE: fail was called (the function does not return).
extract_owner_repo_release(url) ==
    LET parts == SplitOn(StripChar(UrlPath(url), "/"), "/")
    IN  IF url_rejected(parts)
        THEN [ok |-> FALSE]
        ELSE [ok |-> TRUE, owner |-> parts[1], repo |-> parts[2], tag |-> parts[5]]

(***************************************************************************)
(* State                                                                   *)
(***************************************************************************)

VARIABLES
    environ,         \* os.environ: a function from the names that are set to their values
    pc,              \* the statement of main that runs next
    slack_webhook,   \* main's locals ...
    release_url,
    gh_pat,
    parsed,          \* owner, repo, tag
    res,             \* the response of requests.get
    title,
    converted_body,
    blocks,
    slack_res,       \* the response of requests.post
    requests,        \* the HTTP calls issued so far, in order
    stdout,          \* the lines printed so far
    exit_code,       \* the process's exit status; -1 while it runs
    call             \* the frame of a converter called on its own (no run of main)

main_vars ==
    <<environ, pc, slack_webhook, release_url, gh_pat, parsed, res, title,
      converted_body, blocks, slack_res, requests, stdout, exit_code>>

vars == <<main_vars, call>>

\* Python's None: no str, whose elements are single characters.
None == <<"None">>

\* not v, for v a str or None
Falsy(v) == v = None \/ v = <<>>

\* os.getenv(name)
getenv(name) == IF name \in DOMAIN environ THEN environ[name] ELSE None

\* dict.get(key)
Get(d, key) == IF key \in DOMAIN d THEN d[key] ELSE None

NoResponse == [status_code |-> 0]

(***************************************************************************)
(* main                                                                    *)
(***************************************************************************)

\* fail(msg): print the annotation and sys.exit(1).
fail(msg) ==
    /\ stdout' = Append(stdout, [prefix |-> "::error::", msg |-> msg])
    /\ exit_code' = 1
    /\ pc' = "exit"

\* print(msg)
print(msg) == stdout' = Append(stdout, [prefix |-> "", msg |-> msg])

\* An exception nothing catches: the traceback goes to stderr, the status is 1.
crash ==
    /\ exit_code' = 1
    /\ pc' = "exit"
    /\ UNCHANGED stdout

\* The check of the token is missing.
ReadConfig_token_unchecked ==
    /\ pc = "config"
    /\ slack_webhook' = getenv("SLACK_WEBHOOK_URL")
    /\ release_url' = getenv("RELEASE_URL")
    /\ gh_pat' = getenv("GITHUB_TOKEN")
    /\ IF Falsy(slack_webhook')
       THEN fail("Missing required input: slack_webhook_url")
       ELSE IF Falsy(release_url')
       THEN fail("Missing required input: release_url")
       ELSE pc' = "parse" /\ UNCHANGED <<stdout, exit_code>>
    /\ UNCHANGED <<environ, parsed, res, title, converted_body, blocks,
                   slack_res, requests, call>>

\* Lines 128-137: read the three inputs and check each.
ReadConfig ==
    /\ pc = "config"
    /\ slack_webhook' = getenv("SLACK_WEBHOOK_URL")
    /\ release_url' = getenv("RELEASE_URL")
    /\ gh_pat' = getenv("GITHUB_TOKEN")
    /\ IF Falsy(slack_webhook')
       THEN fail("Missing required input: slack_webhook_url")
       ELSE IF Falsy(release_url')
       THEN fail("Missing required input: release_url")
       ELSE IF Falsy(gh_pat')
       THEN fail("Missing required input: github_token")
       ELSE pc' = "parse" /\ UNCHANGED <<stdout, exit_code>>
    /\ UNCHANGED <<environ, parsed, res, title, converted_body, blocks,
                   slack_res, requests, call>>

ApiPrefix ==
    <<"h", "t", "t", "p", "s", ":", "/", "/", "a", "p", "i", ".", "g", "i",
      "t", "h", "u", "b", ".", "c", "o", "m", "/", "r", "e", "p", "o", "s",
      "/">>

ApiInfix ==
    <<"/", "r", "e", "l", "e", "a", "s", "e", "s", "/", "t", "a", "g", "s",
      "/">>

api_url ==
    ApiPrefix \o parsed.owner \o <<"/">> \o parsed.repo \o ApiInfix \o parsed.tag

\* Lines 139-141: parse the release URL and announce the fetch.
ParseUrl ==
    /\ pc = "parse"
    /\ LET r == extract_owner_repo_release(release_url)
       IN  IF r.ok
           THEN /\ parsed' = [owner |-> r.owner, repo |-> r.repo, tag |-> r.tag]
                /\ print("Fetching GitHub release from {api_url}")
                /\ pc' = "get"
                /\ UNCHANGED exit_code
           ELSE /\ fail("Unrecognized GitHub release URL: {url}")
                /\ UNCHANGED parsed
    /\ UNCHANGED <<environ, slack_webhook, release_url, gh_pat, res, title,
                   converted_body, blocks, slack_res, requests, call>>

ExampleBody ==
    <<"#", " ", "R", "e", "l", "e", "a", "s", "e", " ", "N", "o", "t", "e",
      "s", "\n", "-", " ", "[", "x", "]", " ", "F", "i", "x", "e", "d", " ",
      "b", "u", "g", "\n", "[", "d", "o", "c", "s", "]", "(", "h", "t", "t",
      "p", "s", ":", "/", "/", "x", ".", "c", "o", "m", ")">>

\* The JSON objects the release API may answer with: name and body are both
\* optional and nullable.
ReleaseObjects ==
    { [name |-> <<"1", ".", "0">>, body |-> ExampleBody],
      [name |-> None, body |-> <<"-", " ", "a", "\n">>],
      [name |-> <<>>, body |-> None],
      [body |-> <<>>] }

NotFound ==
    <<"N", "o", "t", " ", "F", "o", "u", "n", "d">>

\* What requests.get may return: a status, and a body that is a JSON object or
\* no JSON at all.
GetResponses ==
    {[status_code |-> 200, json |-> [valid |-> TRUE, value |-> o]] : o \in ReleaseObjects}
        \cup {[status_code |-> 404, json |-> [valid |-> TRUE, value |-> [message |-> NotFound]]]}
        \cup {[status_code |-> s, json |-> [valid |-> FALSE]] : s \in {200, 500}}

Authorization == <<"t", "o", "k", "e", "n", " ">> \o gh_pat

\* The status of the GET is not checked.
FetchRelease_status_unchecked ==
    /\ pc = "get"
    /\ requests' = Append(requests,
            [method |-> "GET", url |-> api_url, Authorization |-> Authorization])
    /\ \E raised \in BOOLEAN, r \in GetResponses :
          IF raised
          THEN crash /\ UNCHANGED res
          ELSE /\ res' = r
               /\ pc' = "build"
               /\ UNCHANGED <<stdout, exit_code>>
    /\ UNCHANGED <<environ, slack_webhook, release_url, gh_pat, parsed, title,
                   converted_body, blocks, slack_res, call>>

\* Lines 143-146: the GET, and the check of its status.  requests.get may raise.
FetchRelease ==
    /\ pc = "get"
    /\ requests' = Append(requests,
            [method |-> "GET", url |-> api_url, Authorization |-> Authorization])
    /\ \E raised \in BOOLEAN, r \in GetResponses :
          IF raised
          THEN crash /\ UNCHANGED res
          ELSE /\ res' = r
               /\ IF r.status_code # 200
                  THEN fail("GitHub API error {status_code}: {text}")
                  ELSE pc' = "build" /\ UNCHANGED <<stdout, exit_code>>
    /\ UNCHANGED <<environ, slack_webhook, release_url, gh_pat, parsed, title,
                   converted_body, blocks, slack_res, call>>

DojoRepo ==
    <<"d", "j", "a", "n", "g", "o", "-", "D", "e", "f", "e", "c", "t", "D",
      "o", "j", "o">>

DojoTitle ==
    <<"O", "p", "e", "n", "-", "S", "o", "u", "r", "c", "e", " ", "D", "e",
      "f", "e", "c", "t", "D", "o", "j", "o", " ">>

\* Lines 149-152: the title of the message.
release_title(repo, release, tag) ==
    LET name == IF Falsy(Get(release, "name")) THEN tag ELSE Get(release, "name")
    IN  IF repo = DojoRepo THEN DojoTitle \o name ELSE repo \o <<" ">> \o name

\* Line 153
release_body(release) ==
    IF Falsy(Get(release, "body")) THEN <<>> ELSE Get(release, "body")

\* Lines 148-159: decode the release, build the payload and announce the POST.
\* res.json() raises when the body is no JSON.
BuildPayload ==
    /\ pc = "build"
    /\ IF res.json.valid
       THEN LET release == res.json.value
                text == convert_markdown(release_body(release))
            IN  /\ title' = release_title(parsed.repo, release, parsed.tag)
                /\ converted_body' = text
                /\ blocks' = build_slack_blocks(release_url, title', text)
                /\ print("Sending Block Kit message to Slack")
                /\ pc' = "post"
                /\ UNCHANGED exit_code
       ELSE crash /\ UNCHANGED <<title, converted_body, blocks>>
    /\ UNCHANGED <<environ, slack_webhook, release_url, gh_pat, parsed, res,
                   slack_res, requests, call>>

\* Lines 160-162: the POST, and the check of its status.  requests.post may raise.
PostToSlack ==
    /\ pc = "post"
    /\ requests' = Append(requests,
            [method |-> "POST", url |-> slack_webhook, json |-> [blocks |-> blocks]])
    /\ \E raised \in BOOLEAN, s \in {200, 400, 500} :
          IF raised
          THEN crash /\ UNCHANGED slack_res
          ELSE /\ slack_res' = [status_code |-> s]
               /\ IF s # 200
                  THEN fail("Slack webhook error {status_code}: {text}")
                  ELSE pc' = "done" /\ UNCHANGED <<stdout, exit_code>>
    /\ UNCHANGED <<environ, slack_webhook, release_url, gh_pat, parsed, res,
                   title, converted_body, blocks, call>>

\* Line 164, and the return of main: the process ends with status 0.
Finish ==
    /\ pc = "done"
    /\ print("Slack notification sent successfully.")
    /\ exit_code' = 0
    /\ pc' = "exit"
    /\ UNCHANGED <<environ, slack_webhook, release_url, gh_pat, parsed, res,
                   title, converted_body, blocks, slack_res, requests, call>>

WebhookUrl ==
    <<"h", "t", "t", "p", "s", ":", "/", "/", "h", "o", "o", "k", "s", ".",
      "s", "l", "a", "c", "k", ".", "c", "o", "m", "/", "T">>

Token == <<"g", "h", "p">>

ExampleUrl ==
    <<"h", "t", "t", "p", "s", ":", "/", "/", "g", "i", "t", "h", "u", "b",
      ".", "c", "o", "m", "/", "a", "c", "m", "e", "/", "w", "i", "d", "g",
      "e", "t", "/", "r", "e", "l", "e", "a", "s", "e", "s", "/", "t", "a",
      "g", "/", "v", "1", ".", "2", ".", "3">>

\* The release URLs main is run with: well-formed ones, and ones with a
\* missing segment, a wrong fixed segment and an extra segment.
MainUrls ==
    { ExampleUrl,
      <<"h", "t", "t", "p", "s", ":", "/", "/", "g", "i", "t", "h", "u", "b",
        ".", "c", "o", "m", "/", "o", "/", "d", "j", "a", "n", "g", "o", "-",
        "D", "e", "f", "e", "c", "t", "D", "o", "j", "o", "/", "r", "e", "l",
        "e", "a", "s", "e", "s", "/", "t", "a", "g", "/", "v", "2">>,
      <<"h", "t", "t", "p", "s", ":", "/", "/", "g", "i", "t", "h", "u", "b",
        ".", "c", "o", "m", "/", "a", "c", "m", "e", "/", "w", "i", "d", "g",
        "e", "t">>,
      <<"h", "t", "t", "p", "s", ":", "/", "/", "g", "i", "t", "h", "u", "b",
        ".", "c", "o", "m", "/", "a", "c", "m", "e", "/", "w", "i", "d", "g",
        "e", "t", "/", "r", "e", "l", "e", "a", "s", "e", "/", "t", "a", "g",
        "/", "v", "1">>,
      <<"h", "t", "t", "p", "s", ":", "/", "/", "g", "i", "t", "h", "u", "b",
        ".", "c", "o", "m", "/", "a", "c", "m", "e", "/", "w", "i", "d", "g",
        "e", "t", "/", "r", "e", "l", "e", "a", "s", "e", "s", "/", "t", "a",
        "g", "/", "v", "1", "/", "a", "s", "s", "e", "t", "s">> }

\* The environments main is run in: each input unset, empty or set.
Environments ==
    LET names == {"SLACK_WEBHOOK_URL", "RELEASE_URL", "GITHUB_TOKEN"}
        values(n) == IF n = "SLACK_WEBHOOK_URL" THEN {<<>>, WebhookUrl}
                     ELSE IF n = "RELEASE_URL" THEN {<<>>} \cup MainUrls
                     ELSE {<<>>, Token}
    IN  UNION {{e \in [S -> UNION {values(n) : n \in S}] :
                    \A n \in S : e[n] \in values(n)} : S \in SUBSET names}

NoCall == [fn |-> "none"]

\* The process as it starts: nothing read, nothing sent, nothing printed.
Init ==
    /\ environ \in Environments
    /\ pc = "config"
    /\ slack_webhook = None
    /\ release_url = None
    /\ gh_pat = None
    /\ parsed = [owner |-> <<>>, repo |-> <<>>, tag |-> <<>>]
    /\ res = NoResponse
    /\ title = <<>>
    /\ converted_body = <<>>
    /\ blocks = <<>>
    /\ slack_res = NoResponse
    /\ requests = <<>>
    /\ stdout = <<>>
    /\ exit_code = -1
    /\ call = NoCall

Next ==
    \/ ReadConfig
    \/ ParseUrl
    \/ FetchRelease
    \/ BuildPayload
    \/ PostToSlack
    \/ Finish

Spec == Init /\ [][Next]_vars

(***************************************************************************)
(* The converters called on their own                                      *)
(***************************************************************************)

MaxFragments == 4
MaxTextLen == 6
MaxLimit == 3
MaxSegments == 6
MaxBlockLines == 3

\* All sequences over A of length at most n.
Seqs(A, n) == UNION {[1..k -> A] : k \in 0..n}

\* n times the character c
Rep(c, n) == [k \in 1..n |-> c]

\* No run of main: its variables stay as they are.
MainIdle ==
    /\ environ = <<>>
    /\ pc = "idle"
    /\ slack_webhook = None
    /\ release_url = None
    /\ gh_pat = None
    /\ parsed = [owner |-> <<>>, repo |-> <<>>, tag |-> <<>>]
    /\ res = NoResponse
    /\ title = <<>>
    /\ converted_body = <<>>
    /\ blocks = <<>>
    /\ slack_res = NoResponse
    /\ requests = <<>>
    /\ stdout = <<>>
    /\ exit_code = -1

\* --- convert_markdown, then build_slack_blocks (lines 155-156 of main) ---

MarkdownFragments ==
    { <<"#">>, <<" ">>, <<"\n">>, <<"T", "i", "t", "l", "e">>,
      <<"[", "t", "e", "x", "t", "]", "(", "u", "r", "l", ")">>,
      <<"-", " ", "[", "x", "]">>, <<"-">>, <<"|">> }

\* The example body, and every concatenation of at most n fragments.
MarkdownInputs(n) ==
    {Join(fs, <<>>) : fs \in Seqs(MarkdownFragments, n)} \cup {ExampleBody}

ExampleTitle ==
    <<"w", "i", "d", "g", "e", "t", " ", "1", ".", "0">>

InitMarkdown ==
    /\ MainIdle
    /\ \E md \in MarkdownInputs(MaxFragments) :
          call = [fn |-> "convert_markdown", pc |-> "call", body_md |-> md,
                  converted_body |-> <<>>, blocks |-> <<>>]

\* converted_body = convert_markdown(body_md)
CallConvertMarkdown ==
    /\ call.fn = "convert_markdown"
    /\ call.pc = "call"
    /\ call' = [call EXCEPT !.pc = "converted",
                            !.converted_body = convert_markdown(call.body_md)]
    /\ UNCHANGED main_vars

\* blocks = build_slack_blocks(release_url, title, converted_body)
CallBuildAfterConvert ==
    /\ call.fn = "convert_markdown"
    /\ call.pc = "converted"
    /\ call' = [call EXCEPT !.pc = "built",
                            !.blocks = build_slack_blocks(ExampleUrl, ExampleTitle,
                                                          call.converted_body)]
    /\ UNCHANGED main_vars

NextMarkdown == CallConvertMarkdown \/ CallBuildAfterConvert

SpecMarkdown == InitMarkdown /\ [][NextMarkdown]_vars

\* --- chunk_text ---

\* Every text of at most n characters.
ChunkTexts(n) == Seqs({"a", " ", "\n", "\r"}, n)

InitChunk ==
    /\ MainIdle
    /\ \E text \in ChunkTexts(MaxTextLen), limit \in 1..MaxLimit :
          call = [fn |-> "chunk_text", pc |-> "call", text |-> text,
                  limit |-> limit, chunks |-> <<>>]

CallChunkText ==
    /\ call.fn = "chunk_text"
    /\ call.pc = "call"
    /\ call' = [call EXCEPT !.pc = "returned",
                            !.chunks = chunk_text(call.text, call.limit)]
    /\ UNCHANGED main_vars

NextChunk == CallChunkText

SpecChunk == InitChunk /\ [][NextChunk]_vars

\* --- build_slack_blocks ---

\* Line lengths around the limit: an empty line, a line two of which fill a
\* chunk exactly, a line that fills it exactly, a line that exceeds it.
BlockLineLengths ==
    {0, SLACK_SECTION_LIMIT \div 2 - 1, SLACK_SECTION_LIMIT - 1, SLACK_SECTION_LIMIT}

\* Every text of at most max such lines, as it is and trimmed.
BlockTexts(max) ==
    LET lines == {Rep("a", n) \o <<"\n">> : n \in BlockLineLengths}
        texts == {Join(ls, <<>>) : ls \in Seqs(lines, max)}
    IN  texts \cup {Strip(t) : t \in texts}

InitBlocks ==
    /\ MainIdle
    /\ \E t \in {<<>>, ExampleTitle}, text \in BlockTexts(MaxBlockLines) :
          call = [fn |-> "build_slack_blocks", pc |-> "call",
                  release_url |-> ExampleUrl, title |-> t,
                  markdown_text |-> text, blocks |-> <<>>]

CallBuildSlackBlocks ==
    /\ call.fn = "build_slack_blocks"
    /\ call.pc = "call"
    /\ call' = [call EXCEPT !.pc = "returned",
                            !.blocks = build_slack_blocks(call.release_url, call.title,
                                                          call.markdown_text)]
    /\ UNCHANGED main_vars

NextBlocks == CallBuildSlackBlocks

SpecBlocks == InitBlocks /\ [][NextBlocks]_vars

\* --- extract_owner_repo_release ---

UrlHost ==
    <<"h", "t", "t", "p", "s", ":", "/", "/", "g", "i", "t", "h", "u", "b",
      ".", "c", "o", "m">>

UrlSegments ==
    { <<>>, <<"o">>, <<"v", "1">>, ReleasesName, TagName }

\* The host, then up to max segments each after a "/", then nothing, a closing
\* "/" or a query.
UrlInputs(max) ==
    {UrlHost \o Join([n \in 1..Len(segs) |-> <<"/">> \o segs[n]], <<>>) \o suffix :
        segs \in Seqs(UrlSegments, max),
        suffix \in {<<>>, <<"/">>, <<"?", "q">>}} \cup {ExampleUrl}

InitUrl ==
    /\ MainIdle
    /\ \E url \in UrlInputs(MaxSegments) :
          call = [fn |-> "extract_owner_repo_release", pc |-> "call", url |-> url,
                  result |-> [ok |-> FALSE]]

CallExtract ==
    /\ call.fn = "extract_owner_repo_release"
    /\ call.pc = "call"
    /\ call' = [call EXCEPT !.pc = "returned",
                            !.result = extract_owner_repo_release(call.url)]
    /\ UNCHANGED main_vars

NextUrl == CallExtract

SpecUrl == InitUrl /\ [][NextUrl]_vars

(***************************************************************************)
(* Properties of chunk_text (SpecChunk)                                    *)
(***************************************************************************)

RECURSIVE GroupsFrom(_, _, _)
\* The runs of consecutive lines lo..m that the cuts (a cut c separates line c
\* from line c + 1) delimit, each as <<first, last>>.
GroupsFrom(lo, m, cuts) ==
    IF lo > m THEN <<>>
    ELSE LET later == {c \in cuts : c >= lo}
             hi == IF later = {} THEN m ELSE Min(later)
         IN  <<<<lo, hi>>>> \o GroupsFrom(hi + 1, m, cuts)

\* C3: every chunk is the trimmed concatenation of a run of consecutive source
\* lines (after at most one empty leading chunk), the runs cover the lines in
\* order, a chunk longer than the limit comes from a run of one line that is
\* itself longer than the limit, a chunk of two or more lines is never longer
\* than the limit, and a line longer than the limit is alone in its run (so it
\* is neither split nor joined to another line).
C3_ChunkLimit ==
    (call.fn = "chunk_text" /\ call.pc = "returned") =>
        LET lines == SplitLines(call.text, TRUE)
            m == Len(lines)
        IN  \E cuts \in SUBSET (1..(m - 1)), lead \in BOOLEAN :
               LET gs == GroupsFrom(1, m, cuts)
                   built == [n \in 1..Len(gs) |->
                                Strip(Join(SubSeq(lines, gs[n][1], gs[n][2]), <<>>))]
               IN  /\ call.chunks = (IF lead THEN <<<<>>>> ELSE <<>>) \o built
                   /\ \A n \in 1..Len(gs) :
                         /\ Len(built[n]) > call.limit =>
                               /\ gs[n][1] = gs[n][2]
                               /\ Len(lines[gs[n][1]]) > call.limit
                         /\ gs[n][2] > gs[n][1] => Len(built[n]) <= call.limit
                         /\ \A k \in gs[n][1]..gs[n][2] :
                               Len(lines[k]) > call.limit => gs[n][1] = gs[n][2]

\* The call chunk_text("aaa\n\na", 2) has returned: the first line is longer
\* than the limit and is a chunk of its own, longer than the limit; the two
\* lines after it share the last chunk.
C3_Witness ==
    /\ call.fn = "chunk_text"
    /\ call.pc = "returned"
    /\ call.text = <<"a", "a", "a", "\n", "\n", "a">>
    /\ call.limit = 2
    /\ Len(call.chunks) = 3
    /\ Len(call.chunks[2]) > call.limit
    /\ call.chunks[3] = <<"a">>

\* C4 (as claimed): every chunk returned is non-empty and has no leading or
\* trailing whitespace.
C4_ChunksNonEmptyTrimmed ==
    (call.fn = "chunk_text" /\ call.pc = "returned") =>
        \A n \in 1..Len(call.chunks) :
           /\ call.chunks[n] # <<>>
           /\ Strip(call.chunks[n]) = call.chunks[n]

\* The lines of s that hold more than whitespace, each trimmed, in order.
ContentLines(s) ==
    LET ls == SplitLines(s, FALSE)
        NonBlank(l) == l # <<>>
    IN  SelectSeq([n \in 1..Len(ls) |-> Strip(ls[n])], NonBlank)

\* s without its whitespace
NonSpace(s) ==
    LET Solid(c) == ~IsSpace(c)
    IN  SelectSeq(s, Solid)

\* C5: the non-whitespace lines of the chunks, taken in order, are those of the
\* input, each once and in the input's order; every chunk is a contiguous piece
\* of the input, so that nothing inside a chunk is changed; and what the chunks
\* lack of the input is whitespace only.
C5_ChunksPreserveLines ==
    (call.fn = "chunk_text" /\ call.pc = "returned") =>
        /\ Join([n \in 1..Len(call.chunks) |-> ContentLines(call.chunks[n])], <<>>)
              = ContentLines(call.text)
        /\ \A n \in 1..Len(call.chunks) : Contains(call.text, call.chunks[n])
        /\ NonSpace(Join(call.chunks, <<>>)) = NonSpace(call.text)

\* A call that returned two non-empty chunks and dropped a blank line between them.
C5_Witness ==
    /\ call.fn = "chunk_text"
    /\ call.pc = "returned"
    /\ \E n \in 1..(Len(call.chunks) - 1) :
          /\ call.chunks[n] # <<>>
          /\ call.chunks[n + 1] # <<>>
    /\ \E k \in 1..Len(SplitLines(call.text, FALSE)) :
          /\ k > 1
          /\ k < Len(SplitLines(call.text, FALSE))
          /\ Strip(SplitLines(call.text, FALSE)[k]) = <<>>
    /\ Len(ContentLines(call.text)) >= 2

(***************************************************************************)
(* Properties of build_slack_blocks (SpecBlocks)                           *)
(***************************************************************************)

\* C10: the blocks are the title section, a divider, the header "Details", one
\* body section per chunk of the text in chunk order, and the context block:
\* 4 + n blocks for n chunks, and none for the empty text.
C10_BlockLayout ==
    (call.fn = "build_slack_blocks" /\ call.pc = "returned") =>
        LET chunks == chunk_text(call.markdown_text, SLACK_SECTION_LIMIT)
            n == Len(chunks)
            bs == call.blocks
        IN  /\ Len(bs) = 4 + n
            /\ bs[1] = [type |-> "section",
                        text |-> [type |-> "mrkdwn",
                                  text |-> <<"*", "<">> \o call.release_url \o <<"|">>
                                              \o call.title \o <<">", "*">>]]
            /\ bs[2] = [type |-> "divider"]
            /\ bs[3].type = "header"
            /\ bs[3].text.type = "plain_text"
            /\ bs[3].text.text = <<"D", "e", "t", "a", "i", "l", "s">>
            /\ \A k \in 1..n :
                  bs[3 + k] = [type |-> "section",
                               text |-> [type |-> "mrkdwn", text |-> chunks[k]]]
            /\ bs[4 + n].type = "context"
            /\ call.markdown_text = <<>> =>
                  /\ n = 0
                  /\ \A k \in 2..Len(bs) : bs[k].type # "section"

\* A call that returned two body sections with different texts.
C10_Witness ==
    /\ call.fn = "build_slack_blocks"
    /\ call.pc = "returned"
    /\ Len(call.blocks) >= 6
    /\ call.blocks[4].type = "section"
    /\ call.blocks[5].type = "section"
    /\ call.blocks[4].text.text # call.blocks[5].text.text

(***************************************************************************)
(* Properties of main (Spec)                                               *)
(***************************************************************************)

ConfigMissing ==
    \/ Falsy(getenv("SLACK_WEBHOOK_URL"))
    \/ Falsy(getenv("RELEASE_URL"))
    \/ Falsy(getenv("GITHUB_TOKEN"))

MissingMessages ==
    { "Missing required input: slack_webhook_url",
      "Missing required input: release_url",
      "Missing required input: github_token" }

\* C7: in a run with one of the three inputs unset or empty, no HTTP call is
\* ever issued, nothing after the reading of the inputs runs, the reading can
\* run, and once it has the process has printed the error and exited with
\* status 1.
C7_MissingConfigFatal ==
    ConfigMissing =>
        /\ requests = <<>>
        /\ pc \in {"config", "exit"}
        /\ pc = "config" => ENABLED Next
        /\ pc = "exit" =>
              /\ exit_code = 1
              /\ Len(stdout) = 1
              /\ stdout[1].prefix = "::error::"
              /\ stdout[1].msg \in MissingMessages

\* A run that exited for a missing token, the other two inputs being set.
C7_Witness ==
    /\ ~Falsy(getenv("SLACK_WEBHOOK_URL"))
    /\ ~Falsy(getenv("RELEASE_URL"))
    /\ getenv("GITHUB_TOKEN") = None
    /\ pc = "exit"
    /\ exit_code = 1

Issued(method) == {n \in 1..Len(requests) : requests[n].method = method}

Errors == {n \in 1..Len(stdout) : stdout[n].prefix = "::error::"}

ExampleExpected ==
    <<"*", "R", "e", "l", "e", "a", "s", "e", " ", "N", "o", "t", "e", "s",
      "*", "\n", BULLET, " ", "F", "i", "x", "e", "d", " ", "b", "u", "g",
      "\n", "<", "h", "t", "t", "p", "s", ":", "/", "/", "x", ".", "c", "o",
      "m", "|", "d", "o", "c", "s", ">">>

\* C1 (as claimed): for the example body, convert_markdown and then
\* build_slack_blocks give exactly one body section, whose text is
\* "*Release Notes*\n(bullet) Fixed bug\n<https://x.com|docs>".
C1_EndToEndExample ==
    (call.fn = "convert_markdown" /\ call.pc = "built" /\ call.body_md = ExampleBody) =>
        /\ Len(call.blocks) = 5
        /\ call.blocks[4].type = "section"
        /\ call.blocks[4].text.text = ExampleExpected

MarkdownLink ==
    <<"[", "t", "e", "x", "t", "]", "(", "u", "r", "l", ")">>

SlackLink ==
    <<"<", "u", "r", "l", "|", "t", "e", "x", "t", ">">>

\* How often c occurs in s
Count(s, c) == Cardinality({n \in 1..Len(s) : s[n] = c})

\* C2 (as claimed): an input whose only brackets and parentheses are those of
\* one link [text](url) is converted to a text that holds <url|text> and no
\* bracket or parenthesis.
C2_LinksConverted ==
    ( /\ call.fn = "convert_markdown"
      /\ call.pc # "call"
      /\ Contains(call.body_md, MarkdownLink)
      /\ \A c \in {"[", "]", "(", ")"} : Count(call.body_md, c) = 1 ) =>
        /\ Contains(call.converted_body, SlackLink)
        /\ \A c \in {"[", "]", "(", ")"} : Count(call.converted_body, c) = 0

\* What C6 claims of one line: 1 to 6 hashes and a space, then the header text.
ClaimedHeaderLine(line) ==
    LET h == HashRun(line, 1)
    IN  IF h \in 1..6 /\ h < Len(line) /\ line[h + 1] = " "
        THEN <<"*">> \o Strip(SubSeq(line, h + 1, Len(line))) \o <<"*">>
        ELSE line

\* A line of hashes alone that a line break follows: whether it "begins with
\* hashes followed by whitespace" depends on the reading.
BareHashLine(lines) ==
    \E n \in 1..(Len(lines) - 1) :
        Len(lines[n]) >= 1 /\ HashRun(lines[n], 1) = Len(lines[n])

\* C6 (as claimed): in an input of header markers, spaces, line breaks and
\* words only, every line that begins with 1 to 6 hashes followed by a space
\* becomes *<header text>* on its own line, and every other line is kept.
C6_HeadersConverted ==
    LET lines == SplitOn(call.body_md, "\n")
    IN  ( /\ call.fn = "convert_markdown"
          /\ call.pc # "call"
          /\ \A c \in {"[", "|", "-"} : Count(call.body_md, c) = 0
          /\ ~BareHashLine(lines) ) =>
            call.converted_body =
                Strip(Join([n \in 1..Len(lines) |-> ClaimedHeaderLine(lines[n])],
                           <<"\n">>))

(***************************************************************************)
(* Properties of extract_owner_repo_release (SpecUrl)                      *)
(***************************************************************************)

\* C9 (as claimed): the URL is accepted exactly when its path is five
\* non-empty segments, the third "releases" and the fourth "tag"; the owner,
\* repo and tag returned are segments 1, 2 and 5.
C9_UrlFormExact ==
    (call.fn = "extract_owner_repo_release" /\ call.pc = "returned") =>
        LET segs == SplitOn(StripChar(UrlPath(call.url), "/"), "/")
            wellformed == /\ Len(segs) = 5
                          /\ \A n \in 1..5 : segs[n] # <<>>
                          /\ segs[3] = <<"r", "e", "l", "e", "a", "s", "e", "s">>
                          /\ segs[4] = <<"t", "a", "g">>
        IN  /\ call.result.ok <=> wellformed
            /\ call.result.ok =>
                  /\ call.result.owner = segs[1]
                  /\ call.result.repo = segs[2]
                  /\ call.result.tag = segs[5]
=============================================================================
